---- MODULE Spec2Model ----
(***************************************************************************)
(* Lineage graph builder, root-cause analyzer and Redis cache of the data   *)
(* platform backend (backend/routers/bq_lineage.py,                        *)
(* root_cause_analysis.py, redis_cache.py, main.py).                       *)
(*                                                                         *)
(* Identifiers (project, dataset, table names) and the identity strings    *)
(* built from them are sequences of one-character strings, so that the     *)
(* f-string joins of the code are real concatenations.                     *)
(***************************************************************************)
EXTENDS Integers, Sequences, FiniteSets, TLC

VARIABLES
    upstream_rows,    \* rows the upstream job-history query answers (a set: SELECT DISTINCT)
    downstream_rows,  \* rows the downstream job-history query answers
    lineage_req,      \* inputs of the last lineage request
    lineage_deps,     \* what the two discovery helpers returned to that request
    lineage_result,   \* response of that request
    rc_pc,            \* position inside the evaluation of one ancestor
    metadata,         \* what get_table_metadata() returned for the ancestor
    issues,           \* issue strings collected so far
    severity,         \* severity so far
    failures,         \* job failures found for the ancestor
    suspicious_nodes, \* entries appended for evaluated ancestors
    target_node_id,   \* identity of the table analyze_upstream_dependencies is called for
    lineage_data,     \* the graph handed to analyze_upstream_dependencies
    walk_pc,          \* position inside the breadth-first walk
    queue,            \* the walk's queue
    visited,          \* the walk's visited set
    incoming,         \* incoming edges of the current node still to be looked at
    walk_log,         \* what happened to each newly visited ancestor, in visit order
    rc_result,        \* what analyze_upstream_dependencies returned
    cache_initialized, \* init_cache() ran: get_cache() returns a RedisCache, not None
    client_created,   \* RedisCache.__init__ connected: self.client is not None
    redis_up,         \* the Redis server answers
    redis_store,      \* the entries Redis holds: key, value, ttl
    warehouse,        \* which content the warehouse has
    request_kind,     \* endpoint and arguments of the read requests of this behaviour
    read_pc,          \* position inside the handler of a read request
    cache_key,        \* the handler's cache_key
    read_result,      \* the handler's result dict
    read_response,    \* what the read request was answered with
    cache_lost,       \* cache steps of this request that found the cache away
    source_outcome,   \* what the source call of this request did
    source_version,   \* the warehouse content the source call read
    admin_pc,         \* position inside a cache administration handler
    admin_pattern,    \* pattern of the pattern clear under way
    admin_resp,       \* what the last administration request was answered with
    overtaken,        \* a clear completed after this request read the source
    key_prefix,       \* prefix of the last call of generate_cache_key
    key_args,         \* arguments of that call
    derived_key,      \* what that call returned
    cells,            \* the committed cell rows of the exploration
    cells_created,    \* cells created so far
    exp_response,     \* what the last cell request was answered with
    exploration,      \* the exploration row: owner and public flag
    shares,           \* the committed share rows of the exploration
    clock,            \* hours since the exploration was created
    access_result     \* what the last share or access request was answered with

vars == <<upstream_rows, downstream_rows, lineage_req, lineage_deps, lineage_result,
          rc_pc, metadata, issues, severity, failures, suspicious_nodes,
          target_node_id, lineage_data, walk_pc, queue, visited, incoming, walk_log,
          rc_result,
          cache_initialized, client_created, redis_up, redis_store, warehouse, request_kind,
          read_pc, cache_key, read_result, read_response, cache_lost, source_outcome,
          source_version, admin_pc, admin_pattern, admin_resp, overtaken,
          key_prefix, key_args, derived_key,
          cells, cells_created, exp_response,
          exploration, shares, clock, access_result>>

key_vars == <<key_prefix, key_args, derived_key>>

exploration_vars == <<cells, cells_created, exp_response>>

share_vars == <<exploration, shares, clock, access_result>>

cache_vars == <<cache_initialized, client_created, redis_up, redis_store, warehouse,
                request_kind, read_pc, cache_key, read_result, read_response, cache_lost,
                source_outcome, source_version, admin_pc, admin_pattern, admin_resp,
                overtaken>>

walk_vars == <<target_node_id, lineage_data, walk_pc, queue, visited, incoming, walk_log, rc_result>>

lineage_vars == <<upstream_rows, downstream_rows, lineage_req, lineage_deps, lineage_result>>

rc_vars == <<rc_pc, metadata, issues, severity, failures, suspicious_nodes>>


\* ---------------------------------------------------------------------------
\* Bounds of the model
\* ---------------------------------------------------------------------------

\* rows answered by the two job-history queries together
MaxRows == 2

\* job failures a failure-history query answers
MaxFailures == 2

\* ---------------------------------------------------------------------------
\* Identifiers and identity strings
\* ---------------------------------------------------------------------------

SeqToSet(s) == {s[i] : i \in 1..Len(s)}

\* f"{project}.{dataset}.{table}"
TableId(project, dataset, table) == project \o <<".">> \o dataset \o <<".">> \o table

\* the table the lineage is requested for
Roots == {[project |-> <<"p">>, dataset |-> <<"d">>, table |-> <<"t">>]}

\* identifiers the warehouse may answer; <<>> is a NULL table column
Projects == {<<"p">>, <<"u", "-", "p">>}

Datasets == {<<"d">>}

Tables == {<<"t">>, <<"t", "-", "u">>}

NullTable == <<>>

\* rows of the upstream query: (source_project, source_dataset, source_table)
UpstreamRowUniverse ==
    [project : Projects, dataset : Datasets, table : Tables \cup {NullTable}]

\* rows of the downstream query: the query keeps destination_table.table_id IS NOT NULL
DownstreamRowUniverse ==
    [project : Projects, dataset : Datasets, table : Tables]

Directions == {"upstream", "downstream", "both"}

Depths == {1, 3, 5}

\* outcome of client.query(...).result(): it raised, or the rows in delivery order
QueryError == [raised |-> TRUE, rows |-> <<>>]

QueryRows(rows) == [raised |-> FALSE, rows |-> rows]

\* the orders in which a result set may be delivered
Deliveries(rows) ==
    {QueryRows(s) : s \in {t \in [1..Cardinality(rows) -> rows] :
                               \A i, j \in 1..Cardinality(rows) : t[i] = t[j] => i = j}}

\* ---------------------------------------------------------------------------
\* bq_lineage.py: discovery helpers
\* ---------------------------------------------------------------------------

LineageNode(project, dataset, table, level) ==
    [id |-> TableId(project, dataset, table), label |-> table, type |-> "table",
     projectId |-> project, datasetId |-> dataset, tableName |-> table, level |-> level]

LineageEdge(source_id, target_id) ==
    [source |-> source_id, target |-> target_id, type |-> "dependency"]

RowId(row) == TableId(row.project, row.dataset, row.table)

DiscoveredNode(row) == LineageNode(row.project, row.dataset, row.table, 1)

\* variant: target_id taken from the row instead of the requested table
UpstreamEdgeSelf(row, root) == LineageEdge(RowId(row), RowId(row))

\* variant: source_id and target_id exchanged
UpstreamEdgeSwapped(row, root) == LineageEdge(RowId(root), RowId(row))

\* source_id is the row, target_id the requested table
UpstreamEdge(row, root) == LineageEdge(RowId(row), RowId(root))

\* source_id is the requested table, target_id the row
DownstreamEdge(row, root) == LineageEdge(RowId(root), RowId(row))

\* variant: the loop stops at the first row without table name instead of skipping it
RECURSIVE UpstreamLoopBreak(_, _, _, _, _)
UpstreamLoopBreak(results, i, root, nodes, edges) ==
    IF i > Len(results) THEN [nodes |-> nodes, edges |-> edges, raised |-> FALSE]
    ELSE LET row == results[i] IN
         IF row.table # NullTable
         THEN UpstreamLoopBreak(results, i + 1, root,
                  Append(nodes, DiscoveredNode(row)),
                  Append(edges, UpstreamEdge(row, root)))
         ELSE [nodes |-> nodes, edges |-> edges, raised |-> FALSE]

RECURSIVE UpstreamLoop(_, _, _, _, _)
UpstreamLoop(results, i, root, nodes, edges) ==
    IF i > Len(results) THEN [nodes |-> nodes, edges |-> edges, raised |-> FALSE]
    ELSE LET row == results[i] IN
         IF row.table # NullTable
         THEN UpstreamLoop(results, i + 1, root,
                  Append(nodes, DiscoveredNode(row)),
                  Append(edges, UpstreamEdge(row, root)))
         ELSE UpstreamLoop(results, i + 1, root, nodes, edges)

\* variant: the query's exception is not caught
get_upstream_dependencies_raises(query, root, max_depth) ==
    IF query.raised
    THEN [nodes |-> <<>>, edges |-> <<>>, raised |-> TRUE]
    ELSE UpstreamLoop(query.rows, 1, root, <<>>, <<>>)

\* variant: discovered nodes get level max_depth
get_upstream_dependencies_level(query, root, max_depth) ==
    IF query.raised
    THEN [nodes |-> <<>>, edges |-> <<>>, raised |-> FALSE]
    ELSE LET deps == UpstreamLoop(query.rows, 1, root, <<>>, <<>>)
         IN  [deps EXCEPT !.nodes = [i \in DOMAIN deps.nodes |->
                                       [deps.nodes[i] EXCEPT !.level = max_depth]]]

\* an exception of the query is caught and logged: the lists stay empty
get_upstream_dependencies(query, root, max_depth) ==
    IF query.raised
    THEN [nodes |-> <<>>, edges |-> <<>>, raised |-> FALSE]
    ELSE UpstreamLoop(query.rows, 1, root, <<>>, <<>>)

RECURSIVE DownstreamLoop(_, _, _, _, _)
DownstreamLoop(results, i, root, nodes, edges) ==
    IF i > Len(results) THEN [nodes |-> nodes, edges |-> edges, raised |-> FALSE]
    ELSE LET row == results[i] IN
         IF row.table # NullTable
         THEN DownstreamLoop(results, i + 1, root,
                  Append(nodes, DiscoveredNode(row)),
                  Append(edges, DownstreamEdge(row, root)))
         ELSE DownstreamLoop(results, i + 1, root, nodes, edges)

get_downstream_dependencies(query, root, max_depth) ==
    IF query.raised
    THEN [nodes |-> <<>>, edges |-> <<>>, raised |-> FALSE]
    ELSE DownstreamLoop(query.rows, 1, root, <<>>, <<>>)

NoDeps == [nodes |-> <<>>, edges |-> <<>>, raised |-> FALSE]

\* ---------------------------------------------------------------------------
\* bq_lineage.py: dedup by dict comprehension (first position, last value)
\* ---------------------------------------------------------------------------

\* {key: value for ...}: a later item with a key already present replaces the
\* value and keeps the position
DictPut(dict, key, value) ==
    IF \E i \in 1..Len(dict) : dict[i].key = key
    THEN [i \in 1..Len(dict) |->
            IF dict[i].key = key THEN [key |-> key, value |-> value] ELSE dict[i]]
    ELSE Append(dict, [key |-> key, value |-> value])

DictValues(dict) == [i \in 1..Len(dict) |-> dict[i].value]

NodeKey(node) == node.id

\* f"{edge['source']}-{edge['target']}"
EdgeKey(edge) == edge.source \o <<"-">> \o edge.target

RECURSIVE NodeDict(_, _, _)
NodeDict(nodes, i, dict) ==
    IF i > Len(nodes) THEN dict
    ELSE NodeDict(nodes, i + 1, DictPut(dict, NodeKey(nodes[i]), nodes[i]))

\* variant: no dedup of the node list
unique_nodes_kept(nodes) == nodes

unique_nodes(nodes) == DictValues(NodeDict(nodes, 1, <<>>))

RECURSIVE EdgeDict(_, _, _)
EdgeDict(edges, i, dict) ==
    IF i > Len(edges) THEN dict
    ELSE EdgeDict(edges, i + 1, DictPut(dict, EdgeKey(edges[i]), edges[i]))

unique_edges(edges) == DictValues(EdgeDict(edges, 1, <<>>))

\* ---------------------------------------------------------------------------
\* bq_lineage.py: get_table_lineage, the path taken on a cache miss
\* ---------------------------------------------------------------------------

root_node(root) == LineageNode(root.project, root.dataset, root.table, 0)

LineageResponse(root, upstream_deps, downstream_deps) ==
    IF upstream_deps.raised \/ downstream_deps.raised
    THEN [status |-> 500, nodes |-> <<>>, edges |-> <<>>, rootNode |-> <<>>, cached |-> FALSE]
    ELSE LET nodes == <<root_node(root)>> \o upstream_deps.nodes \o downstream_deps.nodes
             edges == upstream_deps.edges \o downstream_deps.edges
         IN  [status |-> 200,
              nodes |-> unique_nodes(nodes),
              edges |-> unique_edges(edges),
              rootNode |-> root_node(root).id,
              cached |-> FALSE]

get_table_lineage(root, direction, depth, upstream_query, downstream_query) ==
    LET upstream_deps ==
            IF direction \in {"upstream", "both"}
            THEN get_upstream_dependencies(upstream_query, root, depth) ELSE NoDeps
        downstream_deps ==
            IF direction \in {"downstream", "both"}
            THEN get_downstream_dependencies(downstream_query, root, depth) ELSE NoDeps
    IN  /\ lineage_req' = [root |-> root, direction |-> direction, depth |-> depth,
                           upstream_query |-> upstream_query,
                           downstream_query |-> downstream_query]
        /\ lineage_deps' = [upstream |-> upstream_deps, downstream |-> downstream_deps]
        /\ lineage_result' = LineageResponse(root, upstream_deps, downstream_deps)
        /\ UNCHANGED <<upstream_rows, downstream_rows>>

\* before the first request
NoRequest == [root |-> [project |-> <<>>, dataset |-> <<>>, table |-> <<>>],
              direction |-> "none", depth |-> 0,
              upstream_query |-> QueryError, downstream_query |-> QueryError]

NoResponse == [status |-> 0, nodes |-> <<>>, edges |-> <<>>, rootNode |-> <<>>, cached |-> FALSE]

LineageRequest ==
    /\ \E root \in Roots, direction \in Directions, depth \in Depths :
       \E upstream_query \in Deliveries(upstream_rows) \cup {QueryError},
          downstream_query \in Deliveries(downstream_rows) \cup {QueryError} :
            get_table_lineage(root, direction, depth, upstream_query, downstream_query)
    /\ UNCHANGED <<rc_vars, walk_vars, cache_vars, key_vars, exploration_vars, share_vars>>

\* ---------------------------------------------------------------------------
\* root_cause_analysis.py: metadata and failure history of one ancestor
\* ---------------------------------------------------------------------------

FRESH_HOURS == 24

RECENT_HOURS == 72

\* time is counted in hours; get_table_metadata() reads the clock at FetchTime
FetchTime == 0

\* table_ref.modified of the ancestor, as hours before the fetch
ModifiedAges == {0, 23, 24, 48, 71, 72, 100, 167, 168, 200}

\* hours between the clock read of get_table_metadata() and the one of check 2
Elapsed == {0, 1}

RowCounts == {0, 1000}

NoMetadata == [ok |-> FALSE, modifiedAt |-> 0, freshness |-> "unknown", numRows |-> 0,
               type |-> "table"]

Freshness(hours_since_modified) ==
    IF hours_since_modified < FRESH_HOURS THEN "fresh"
    ELSE IF hours_since_modified < RECENT_HOURS THEN "recent"
    ELSE "stale"

\* raised: bq_client.get_table() failed, the function prints and returns None
get_table_metadata(raised, modified, num_rows, now) ==
    IF raised THEN NoMetadata
    ELSE [ok |-> TRUE, modifiedAt |-> modified, freshness |-> Freshness(now - modified),
          numRows |-> num_rows, type |-> "table"]

\* raised: the query failed, the function prints and returns []
get_recent_job_failures(raised, rows) ==
    IF raised THEN <<>> ELSE [i \in 1..Len(rows) |-> [jobId |-> rows[i]]]

\* ---------------------------------------------------------------------------
\* root_cause_analysis.py: the four checks of analyze_upstream_dependencies;
\* st is [issues, severity]
\* ---------------------------------------------------------------------------

SeverityRank(s) == CASE s = "critical" -> 0 [] s = "warning" -> 1 [] OTHER -> 2

EvalStart == [issues |-> <<>>, severity |-> "info"]

\* variant: only stale data is reported
CheckFreshnessStaleOnly(st, md) ==
    IF md.freshness = "stale"
    THEN [issues |-> Append(st.issues, "Data is stale (not updated in >72 hours)"),
          severity |-> "critical"]
    ELSE st

\* Check 1: data freshness
CheckFreshness(st, md) ==
    IF md.freshness = "stale"
    THEN [issues |-> Append(st.issues, "Data is stale (not updated in >72 hours)"),
          severity |-> "critical"]
    ELSE IF md.freshness = "recent"
    THEN [issues |-> Append(st.issues, "Data may be outdated (>24 hours old)"),
          severity |-> IF st.severity = "info" THEN "warning" ELSE st.severity]
    ELSE st

\* Check 2: recent modification, the clock is read again
CheckRecentModification(st, md, now) ==
    IF now - md.modifiedAt < FRESH_HOURS
    THEN [issues |-> Append(st.issues, "Modified hours ago (potential breaking change)"),
          severity |-> IF st.severity = "info" THEN "critical" ELSE st.severity]
    ELSE st

\* variant: the empty-table check assigns warning
CheckEmptyWarns(st, md) ==
    IF md.numRows = 0
    THEN [issues |-> Append(st.issues, "Table is empty (0 rows)"), severity |-> "warning"]
    ELSE st

\* Check 3: empty table
CheckEmpty(st, md) ==
    IF md.numRows = 0
    THEN [issues |-> Append(st.issues, "Table is empty (0 rows)"), severity |-> "critical"]
    ELSE st

\* Check 4: recent job failures
CheckFailures(st, job_failures) ==
    IF Len(job_failures) > 0
    THEN [issues |-> Append(st.issues, "job failure(s) in last 24 hours"),
          severity |-> "critical"]
    ELSE st

SuspiciousNode(st, md, job_failures) ==
    [issues |-> st.issues, severity |-> st.severity, lastModified |-> md.modifiedAt,
     freshness |-> md.freshness, numRows |-> md.numRows, jobFailures |-> job_failures]

\* ---------------------------------------------------------------------------
\* redis_cache.py: RedisCache, generate_cache_key and the TTL constants
\* ---------------------------------------------------------------------------

\* times the warehouse content changes while requests are served
MaxChanges == 1

\* characters of keys and queries: a-z, then A-Z, then digits and marks
Alphabet ==
    <<"a", "b", "c", "d", "e", "f", "g", "h", "i", "j", "k", "l", "m",
      "n", "o", "p", "q", "r", "s", "t", "u", "v", "w", "x", "y", "z",
      "A", "B", "C", "D", "E", "F", "G", "H", "I", "J", "K", "L", "M",
      "N", "O", "P", "Q", "R", "S", "T", "U", "V", "W", "X", "Y", "Z",
      "0", "1", "2", "3", "4", "5", "6", "7", "8", "9",
      ":", ".", "-", "_", " ", "*">>

CharCode(c) == CHOOSE i \in 1..Len(Alphabet) : Alphabet[i] = c

HexDigits == <<"0", "1", "2", "3", "4", "5", "6", "7", "8", "9", "a", "b", "c", "d", "e", "f">>

\* sum of the character codes over the positions from..to of s, each
\* multiplied by its position when placed
RECURSIVE WeightedSum(_, _, _, _)
WeightedSum(s, placed, from, to) ==
    IF from > to THEN 0
    ELSE IF from = to THEN (IF placed THEN from ELSE 1) * CharCode(s[from])
    ELSE LET mid == (from + to) \div 2
         IN  WeightedSum(s, placed, from, mid) + WeightedSum(s, placed, mid + 1, to)

\* hashlib.md5(s.encode()).hexdigest(): a fixed function of the text that
\* yields 32 hexadecimal digits (the digest itself is the library's)
Md5HexDigest(s) ==
    LET plain == WeightedSum(s, FALSE, 1, Len(s))
        placed == WeightedSum(s, TRUE, 1, Len(s))
    IN  [k \in 1..32 |-> HexDigits[((placed + k * plain) % 16) + 1]]

\* str(arg) of a non-negative integer argument; str of a string is the string
RECURSIVE str(_)
str(n) ==
    IF n < 10 THEN <<HexDigits[n + 1]>>
    ELSE str(n \div 10) \o <<HexDigits[(n % 10) + 1]>>

\* sep.join(parts)
RECURSIVE Join(_, _)
Join(parts, sep) ==
    IF parts = <<>> THEN <<>>
    ELSE IF Len(parts) = 1 THEN parts[1]
    ELSE parts[1] \o sep \o Join(Tail(parts), sep)

\* the default of generate_cache_key's keyword argument prefix
DEFAULT_PREFIX == <<"b", "q">>

generate_cache_key(args, prefix) ==
    LET key_string == Join(args, <<":">>)
    IN  IF Len(key_string) > 100
        THEN prefix \o <<":">> \o SubSeq(Md5HexDigest(key_string), 1, 16)
        ELSE prefix \o <<":">> \o key_string

TTL_ASSETS == 6 * 3600

TTL_LINEAGE == 1 * 3600

TTL_SCHEMA == 12 * 3600

TTL_QUERY_RESULT == 5 * 60

\* s.startswith(p)
startswith(s, p) == Len(s) >= Len(p) /\ SubSeq(s, 1, Len(p)) = p

\* s.upper()
upper(s) ==
    [i \in 1..Len(s) |->
        IF CharCode(s[i]) <= 26 THEN Alphabet[CharCode(s[i]) + 26] ELSE s[i]]

\* s.strip()
RECURSIVE strip(_)
strip(s) ==
    IF s = <<>> THEN s
    ELSE IF Head(s) = " " THEN strip(Tail(s))
    ELSE IF s[Len(s)] = " " THEN strip(SubSeq(s, 1, Len(s) - 1))
    ELSE s

\* Redis KEYS pattern matching, for patterns of literal characters and "*"
RECURSIVE GlobFrom(_, _, _, _)
GlobFrom(pattern, i, key, j) ==
    IF i > Len(pattern) THEN j > Len(key)
    ELSE IF pattern[i] = "*"
         THEN GlobFrom(pattern, i + 1, key, j)
              \/ (j <= Len(key) /\ GlobFrom(pattern, i, key, j + 1))
         ELSE /\ j <= Len(key)
              /\ pattern[i] = key[j]
              /\ GlobFrom(pattern, i + 1, key, j + 1)

GlobMatch(pattern, key) == GlobFrom(pattern, 1, key, 1)

\* main.py clear_cache_pattern: allowed_patterns
allowed_patterns == <<<<"l", "i", "n", "e", "a", "g", "e", ":", "*">>, <<"a", "s", "s", "e", "t", "s", ":", "*">>, <<"s", "c", "h", "e", "m", "a", ":", "*">>>>

\* patterns a caller sends to DELETE /api/cache/clear/{pattern}
Patterns == SeqToSet(allowed_patterns) \cup {<<"f", "o", "o", ":", "*">>}

\* a table name long enough for the joined key text to pass 100 characters
LongTable == [i \in 1..101 |-> "x"]

\* the cacheable read endpoints with the arguments of one request each; the
\* lineage endpoint also with a long table name, the execute endpoint also
\* with a statement that is not a SELECT, the edge-query endpoint also with
\* a source of two parts and with a target of four, and the execution of an
\* exploration's SQL cell (exploration id, cell id, query)
RequestKinds ==
    { [endpoint |-> "metadata", args |-> << <<"p">>, <<"d">>, <<"t">> >>],
      [endpoint |-> "preview", args |-> << <<"p">>, <<"d">>, <<"t">>, str(10) >>],
      [endpoint |-> "assets", args |-> << >>],
      [endpoint |-> "lineage", args |-> << <<"p">>, <<"d">>, <<"t">>, <<"b", "o", "t", "h">>, str(3) >>],
      [endpoint |-> "lineage", args |-> << <<"p">>, <<"d">>, LongTable, <<"u", "p", "s", "t", "r", "e", "a", "m">>, str(5) >>],
      [endpoint |-> "edge-query",
       args |-> << TableId(<<"p">>, <<"d">>, <<"a">>), TableId(<<"p">>, <<"d">>, <<"t">>) >>],
      [endpoint |-> "edge-query",
       args |-> << <<"p", ".", "d">>, TableId(<<"p">>, <<"d">>, <<"t">>) >>],
      [endpoint |-> "edge-query",
       args |-> << TableId(<<"p">>, <<"d">>, <<"a">>), <<"e", ".", "p", ".", "d", ".", "b">> >>],
      [endpoint |-> "cell", args |-> << <<"e">>, <<"c">>, <<"s", "e", "l", "e", "c", "t", " ", "1">> >>],
      [endpoint |-> "schema", args |-> << >>],
      [endpoint |-> "execute", args |-> << <<"s", "e", "l", "e", "c", "t", " ", "1">> >>],
      [endpoint |-> "execute", args |-> << <<"U", "P", "D", "A", "T", "E", " ", "t">> >>] }

NoKind == [endpoint |-> "none", args |-> << >>]

\* endpoints of the routers: they take the cache from get_cache(), which is
\* None until init_cache() ran; the others are main.py's
RouterEndpoints == {"metadata", "preview", "assets", "lineage", "edge-query", "cell"}

\* the cache_key each handler computes
CacheKeyOf(kind) ==
    CASE kind.endpoint = "metadata" ->
             generate_cache_key(<<<<"m", "e", "t", "a", "d", "a", "t", "a">>>> \o kind.args, DEFAULT_PREFIX)
      [] kind.endpoint = "preview" ->
             generate_cache_key(<<<<"p", "r", "e", "v", "i", "e", "w">>>> \o kind.args, DEFAULT_PREFIX)
      [] kind.endpoint = "assets" -> <<"a", "s", "s", "e", "t", "s", ":", "a", "l", "l", "_", "p", "r", "o", "j", "e", "c", "t", "s">>
      [] kind.endpoint = "lineage" ->
             generate_cache_key(<<<<"l", "i", "n", "e", "a", "g", "e">>>> \o kind.args, DEFAULT_PREFIX)
      [] kind.endpoint = "edge-query" ->
             generate_cache_key(<<<<"e", "d", "g", "e", "-", "q", "u", "e", "r", "y">>>> \o kind.args, DEFAULT_PREFIX)
      [] kind.endpoint = "schema" -> <<"s", "c", "h", "e", "m", "a", ":", "a", "l", "l", "_", "d", "a", "t", "a", "s", "e", "t", "s">>
      [] kind.endpoint = "execute" -> <<"q", "u", "e", "r", "y", ":">> \o Md5HexDigest(kind.args[1])
      [] kind.endpoint = "cell" ->
             <<"e", "x", "p", ":">> \o kind.args[1] \o <<":", "c", "e", "l", "l", ":">> \o kind.args[2] \o <<":">>
                 \o Md5HexDigest(strip(kind.args[3]))

\* every write with the default ttl of RedisCache.set
TtlOfDefault(endpoint) == 3600

\* the ttl each handler passes to cache.set
TtlOf(endpoint) ==
    CASE endpoint = "metadata" -> TTL_ASSETS
      [] endpoint = "preview" -> TTL_LINEAGE
      [] endpoint = "assets" -> TTL_ASSETS
      [] endpoint = "lineage" -> TTL_LINEAGE
      [] endpoint = "edge-query" -> TTL_LINEAGE
      [] endpoint = "schema" -> TTL_SCHEMA
      [] endpoint = "execute" -> TTL_QUERY_RESULT
      [] endpoint = "cell" -> TTL_QUERY_RESULT

\* status of the HTTPException a handler turns a source error into
ErrorStatus(endpoint) == IF endpoint \in {"execute", "cell"} THEN 400 ELSE 500

\* what the source call of a handler may do: edge-query may find no job,
\* a cell's query may answer 5000 rows or more
SourceOutcomes(endpoint) ==
    CASE endpoint = "edge-query" -> {"ok", "empty", "error"}
      [] endpoint = "cell" -> {"ok", "large", "error"}
      [] OTHER -> {"ok", "error"}

\* whether the handler goes on to store the result it built
Storable(kind, outcome) ==
    CASE kind.endpoint = "edge-query" -> outcome = "ok"
      [] kind.endpoint = "cell" -> outcome = "ok"
      [] kind.endpoint = "execute" -> startswith(upper(strip(kind.args[1])), <<"S", "E", "L", "E", "C", "T">>)
      [] OTHER -> TRUE

\* the dict a handler builds from the source: which endpoint, from which
\* warehouse content, with "cached": False
Result(kind, version, outcome) ==
    [endpoint |-> kind.endpoint, version |-> version, found |-> outcome = "ok",
     cached |-> FALSE]

\* None where a payload is expected
NoValue == [endpoint |-> "none", version |-> 0, found |-> FALSE, cached |-> FALSE]

NoReadResponse == [status |-> 0, body |-> NoValue]

\* RedisCache.is_connected(): self.client is not None and ping() answers
is_connected == client_created /\ redis_up

\* `cache and cache.is_connected()` of the router handlers,
\* `cache.is_connected()` of main.py's
CacheAvailable(kind) ==
    /\ kind.endpoint \in RouterEndpoints => cache_initialized
    /\ is_connected

StoredValue(key) ==
    IF \E e \in redis_store : e.key = key
    THEN (CHOOSE e \in redis_store : e.key = key).value
    ELSE NoValue

\* the try block of RedisCache.get without its except clause
cache_get_unguarded(key) ==
    IF redis_up THEN [raised |-> FALSE, value |-> StoredValue(key)]
    ELSE [raised |-> TRUE, value |-> NoValue]

\* the try/except of RedisCache.get: client.get, json.loads; None on any error
cache_get(key) ==
    IF redis_up THEN [raised |-> FALSE, value |-> StoredValue(key)]
    ELSE [raised |-> FALSE, value |-> NoValue]

\* the try/except of RedisCache.set: setex replaces the entry of the key
cache_set(key, value, ttl) ==
    IF redis_up
    THEN {e \in redis_store : e.key # key} \cup {[key |-> key, value |-> value, ttl |-> ttl]}
    ELSE redis_store

\* a hit that is returned as it was stored
MarkCachedNot(cached_data) == cached_data

\* cached_data["cached"] = True
MarkCached(cached_data) == [cached_data EXCEPT !.cached = TRUE]

\* keys RedisCache.delete_pattern deletes
MatchingKeys(pattern) == {e.key : e \in {x \in redis_store : GlobMatch(pattern, x.key)}}

NoAdminResponse ==
    [op |-> "none", pattern |-> << >>, status |-> 0, keys_deleted |-> 0,
     connected |-> FALSE, call_connected |-> FALSE, deleted |-> {}, remaining |-> {}]

\* ---------------------------------------------------------------------------
\* routers/explorations.py and db/connection.py: the cells of one exploration
\* ---------------------------------------------------------------------------

\* cells ever created in the exploration
MaxCells == 3

\* an Optional[int] of the code: None, or a number
NoInt == [null |-> TRUE, value |-> 0]

SomeInt(n) == [null |-> FALSE, value |-> n]

\* select(func.max(ExplorationCell.order_index)): NULL over no rows
MaxOrderIndex(rows) ==
    IF rows = {} THEN NoInt
    ELSE SomeInt(CHOOSE n \in {c.order_index : c \in rows} :
                     \A c \in rows : c.order_index <= n)

\* Python's "x or default": the default for None and for 0
PyOr(x, default) == IF x.null \/ x.value = 0 THEN default ELSE x.value

NoOutput == [kind |-> "none", executed_at |-> 0, cached |-> FALSE]

\* what datetime.now() answers to a request
ClockReads == {1, 2}

CELL_TYPES == {"sql", "markdown", "visualization"}

\* create_cell on the session: shift, or append after the maximum, then add
create_cell(rows, id, cell_type, requested_index) ==
    IF ~requested_index.null
    THEN {IF c.order_index >= requested_index.value
          THEN [c EXCEPT !.order_index = c.order_index + 1] ELSE c : c \in rows}
         \cup {[id |-> id, order_index |-> requested_index.value, cell_type |-> cell_type,
                output |-> NoOutput]}
    ELSE rows \cup {[id |-> id, order_index |-> PyOr(MaxOrderIndex(rows), -1) + 1,
                     cell_type |-> cell_type, output |-> NoOutput]}

\* delete_cell on the session: delete, then shift the cells behind it down
delete_cell(rows, cell) ==
    {IF c.order_index > cell.order_index
     THEN [c EXCEPT !.order_index = c.order_index - 1] ELSE c : c \in rows \ {cell}}

\* cell.output = ...; await db.flush()
set_output(rows, cell, output) ==
    {IF c = cell THEN [c EXCEPT !.output = output] ELSE c : c \in rows}

\* get_db around the handler: commit when it returned, rollback when it raised
get_db(committed, session, raised) == IF raised THEN committed ELSE session

NoExpResponse == [op |-> "none", status |-> 0, cell_id |-> 0, outcome |-> "none",
                  start_time |-> 0]

ExpResponse(op, status, cell_id, outcome, start_time) ==
    [op |-> op, status |-> status, cell_id |-> cell_id, outcome |-> outcome,
     start_time |-> start_time]

ExplorationIdle ==
    /\ cells = {}
    /\ cells_created = 0
    /\ exp_response = NoExpResponse


\* ---------------------------------------------------------------------------
\* routers/explorations.py: the shares of one exploration and the access check
\* ---------------------------------------------------------------------------

\* shares ever created on the exploration
MaxShares == 2

\* hours the clock advances over a behaviour
MaxTime == 2

OwnerId == "owner"

UserIds == {OwnerId, "u1", "u2"}

\* shared_with_user_id = None
NoUser == "-"

\* share_token = None
NoToken == 0

\* bodies of POST /shares: a share with a user at each level, or a link
ShareCreates ==
    [shared_with_user_id : {"u1"}, permission_level : {"view", "edit", "admin"},
     create_link : {FALSE}, expires_in_hours : {NoInt, SomeInt(0), SomeInt(1)}]
    \cup
    [shared_with_user_id : {NoUser}, permission_level : {"view"},
     create_link : {TRUE}, expires_in_hours : {NoInt, SomeInt(1)}]

\* "if data.expires_in_hours:" None and 0 leave the share without an expiry
ExpiresAt(expires_in_hours, now) ==
    IF expires_in_hours.null \/ expires_in_hours.value = 0 THEN NoInt
    ELSE SomeInt(now + expires_in_hours.value)

\* "share.expires_at and share.expires_at < now"
Expired(share, now) == ~share.expires_at.null /\ share.expires_at.value < now

\* the orders in which the relationship can load a set of shares
LoadOrders(rows) ==
    {order \in [1..Cardinality(rows) -> rows] :
        \A i, j \in 1..Cardinality(rows) : order[i] = order[j] => i = j}

\* check_exploration_access: the status it ends with, 200 for a return
check_exploration_access(found, exp, loaded, user_id, require_edit) ==
    IF ~found THEN 404
    ELSE IF exp.user_id = user_id THEN 200
    ELSE IF exp.is_public /\ ~require_edit THEN 200
    ELSE LET hits == {i \in 1..Len(loaded) : loaded[i].shared_with_user_id = user_id}
         IN  IF hits = {} THEN 403
             ELSE LET first == CHOOSE i \in hits : \A j \in hits : i <= j
                  IN  IF require_edit /\ loaded[first].permission_level = "view"
                      THEN 403 ELSE 200

\* get_shared_exploration: the status it ends with
get_shared_exploration(rows, token, now) ==
    LET found == {s \in rows : s.share_token = token}
    IN  IF found = {} THEN 404
        ELSE IF Expired(CHOOSE s \in found : TRUE, now) THEN 410 ELSE 200

NoAccessResult == [op |-> "none", user_id |-> NoUser, require_edit |-> FALSE,
                   token |-> NoToken, status |-> 0, at |-> 0]

ShareIdle ==
    /\ exploration = [user_id |-> OwnerId, is_public |-> FALSE]
    /\ shares = {}
    /\ clock = 0
    /\ access_result = NoAccessResult


\* ---------------------------------------------------------------------------
\* Idle values of the cache and of the key derivation
\* ---------------------------------------------------------------------------

KeyIdle ==
    /\ key_prefix = << >>
    /\ key_args = << >>
    /\ derived_key = << >>

CacheIdle ==
    /\ cache_initialized = FALSE
    /\ client_created = FALSE
    /\ redis_up = FALSE
    /\ redis_store = {}
    /\ warehouse = 0
    /\ request_kind = NoKind
    /\ read_pc = "idle"
    /\ cache_key = << >>
    /\ read_result = NoValue
    /\ read_response = NoReadResponse
    /\ cache_lost = {}
    /\ source_outcome = "none"
    /\ source_version = 0
    /\ admin_pc = "idle"
    /\ admin_pattern = << >>
    /\ admin_resp = NoAdminResponse
    /\ overtaken = FALSE

\* ---------------------------------------------------------------------------
\* root_cause_analysis.py: analyze_upstream_dependencies, the breadth-first walk
\* ---------------------------------------------------------------------------

\* edges of the graph handed to one analysis
MaxEdges == 2

RECURSIVE SplitFrom(_, _, _, _, _)
SplitFrom(s, sep, i, current, parts) ==
    IF i > Len(s) THEN Append(parts, current)
    ELSE IF s[i] = sep
         THEN SplitFrom(s, sep, i + 1, <<>>, Append(parts, current))
         ELSE SplitFrom(s, sep, i + 1, Append(current, s[i]), parts)

\* source_id.split(".")
split(s, sep) == SplitFrom(s, sep, 1, <<>>, <<>>)

\* the analysed table and the identities an edge list may name: two
\* project.dataset.table identities and one whose project holds a dot
WalkTarget == TableId(<<"p">>, <<"d">>, <<"t">>)

AncestorA == TableId(<<"p">>, <<"d">>, <<"a">>)

AncestorB == TableId(<<"p">>, <<"d">>, <<"b">>)

AncestorDotted == TableId(<<"e", ".", "p">>, <<"d">>, <<"b">>)

\* table_ref.modified of an ancestor met by the walk, as hours before the fetch
WalkAges == {23, 48, 100}

\* rows the failure-history query answers to the walk
WalkFailureCounts == {0, 1}

EdgeLists(ids) ==
    UNION {[1..n -> [source : ids, target : ids]] : n \in 0..MaxEdges}

NoAnalysis == [status |-> 0, suspiciousNodes |-> <<>>, analyzedNodes |-> 0,
               recommendation |-> [kind |-> "none", table |-> <<>>]]

\* variant: the walk starts with an empty visited set
initial_visited_empty(target) == {}

\* visited = set(); visited.add(target_node_id)
initial_visited(target) == {target}

\* the four checks in the order of the code
Evaluate(md, now, job_failures) ==
    CheckFailures(
        CheckEmpty(
            CheckRecentModification(CheckFreshness(EvalStart, md), md, now),
            md),
        job_failures)

\* the entry appended to suspicious_nodes
SuspiciousEntry(source_id, parts, st, md, job_failures) ==
    [node |-> [id |-> source_id, label |-> parts[3], datasetId |-> parts[2], type |-> md.type],
     issues |-> st.issues, severity |-> st.severity, lastModified |-> md.modifiedAt,
     freshness |-> md.freshness, numRows |-> md.numRows, jobFailures |-> job_failures]

LogEntry(source_id, step, md, job_failures, failures_raised) ==
    [id |-> source_id, step |-> step, metadata |-> md, failures |-> job_failures,
     failures_raised |-> failures_raised]

\* body of the loop for a source that was not visited before; the table state
\* and the outcome of the two fetches are the arguments
AnalyzeAncestor(source_id, md_raised, age, num_rows, elapsed, failures_raised, n) ==
    LET parts == split(source_id, ".")
        md == get_table_metadata(md_raised, FetchTime - age, num_rows, FetchTime)
        job_failures == get_recent_job_failures(failures_raised, [i \in 1..n |-> i])
        st == Evaluate(md, FetchTime + elapsed, job_failures)
    IN  IF source_id \notin lineage_data.nodes
        THEN /\ walk_log' = Append(walk_log, LogEntry(source_id, "no_node", NoMetadata, <<>>, FALSE))
             /\ UNCHANGED suspicious_nodes
        ELSE IF Len(parts) # 3
        THEN /\ walk_log' = Append(walk_log, LogEntry(source_id, "bad_id", NoMetadata, <<>>, FALSE))
             /\ UNCHANGED suspicious_nodes
        ELSE IF ~md.ok
        THEN /\ walk_log' = Append(walk_log, LogEntry(source_id, "no_metadata", NoMetadata, <<>>, FALSE))
             /\ UNCHANGED suspicious_nodes
        ELSE /\ walk_log' = Append(walk_log,
                                LogEntry(source_id, "evaluated", md, job_failures, failures_raised))
             /\ suspicious_nodes' =
                    IF Len(st.issues) > 0
                    THEN Append(suspicious_nodes,
                                SuspiciousEntry(source_id, parts, st, md, job_failures))
                    ELSE suspicious_nodes

\* variant: an entry is put before the entries of equal severity
RECURSIVE InsertBefore(_, _)
InsertBefore(sorted, entry) ==
    IF sorted = <<>> THEN <<entry>>
    ELSE IF SeverityRank(Head(sorted).severity) >= SeverityRank(entry.severity)
         THEN <<entry>> \o sorted
         ELSE <<Head(sorted)>> \o InsertBefore(Tail(sorted), entry)

\* an entry is put behind the entries of lower or equal rank
RECURSIVE InsertStable(_, _)
InsertStable(sorted, entry) ==
    IF sorted = <<>> THEN <<entry>>
    ELSE IF SeverityRank(Head(sorted).severity) > SeverityRank(entry.severity)
         THEN <<entry>> \o sorted
         ELSE <<Head(sorted)>> \o InsertStable(Tail(sorted), entry)

RECURSIVE SortFrom(_, _, _)
SortFrom(entries, i, sorted) ==
    IF i > Len(entries) THEN sorted
    ELSE SortFrom(entries, i + 1, InsertStable(sorted, entries[i]))

\* suspicious_nodes.sort(key=severity_order): list.sort is stable
sort_by_severity(entries) == SortFrom(entries, 1, <<>>)

Recommendation(sorted) ==
    IF sorted = <<>> THEN [kind |-> "no_obvious_issues", table |-> <<>>]
    ELSE IF sorted[1].severity = "critical"
         THEN [kind |-> "start_investigating", table |-> sorted[1].node.label]
         ELSE [kind |-> "check_flagged", table |-> <<>>]

\* len(visited)
AnalyzedNodes(visited_ids, target) == Cardinality(visited_ids)

\* current_id = queue.pop(0) and the list of its incoming edges
PopQueue ==
    /\ walk_pc = "pop"
    /\ queue # <<>>
    /\ LET current_id == Head(queue)
           IsIncoming(e) == e.target = current_id
       IN  /\ queue' = Tail(queue)
           /\ incoming' = SelectSeq(lineage_data.edges, IsIncoming)
           /\ walk_pc' = IF incoming' = <<>> THEN "pop" ELSE "edges"
    /\ UNCHANGED <<target_node_id, lineage_data, visited, walk_log, rc_result, suspicious_nodes>>
    /\ UNCHANGED <<rc_pc, metadata, issues, severity, failures>>
    /\ UNCHANGED <<lineage_vars, cache_vars, key_vars, exploration_vars, share_vars>>

\* one turn of "for edge in incoming_edges"
VisitEdge ==
    /\ walk_pc = "edges"
    /\ incoming # <<>>
    /\ LET source_id == Head(incoming).source IN
       IF source_id \in visited
       THEN UNCHANGED <<visited, queue, walk_log, suspicious_nodes>>
       ELSE /\ visited' = visited \cup {source_id}
            /\ queue' = Append(queue, source_id)
            /\ \E md_raised \in BOOLEAN, age \in WalkAges, num_rows \in RowCounts,
                  elapsed \in Elapsed, failures_raised \in BOOLEAN, n \in WalkFailureCounts :
                 AnalyzeAncestor(source_id, md_raised, age, num_rows, elapsed,
                                 failures_raised, n)
    /\ incoming' = Tail(incoming)
    /\ walk_pc' = IF incoming' = <<>> THEN "pop" ELSE "edges"
    /\ UNCHANGED <<target_node_id, lineage_data, rc_result>>
    /\ UNCHANGED <<rc_pc, metadata, issues, severity, failures>>
    /\ UNCHANGED <<lineage_vars, cache_vars, key_vars, exploration_vars, share_vars>>

\* the queue is empty: sort, recommendation, return
FinishAnalysis ==
    /\ walk_pc = "pop"
    /\ queue = <<>>
    /\ LET sorted == sort_by_severity(suspicious_nodes) IN
       rc_result' = [status |-> 200,
                     suspiciousNodes |-> sorted,
                     analyzedNodes |-> AnalyzedNodes(visited, target_node_id),
                     recommendation |-> Recommendation(sorted)]
    /\ walk_pc' = "done"
    /\ UNCHANGED <<target_node_id, lineage_data, queue, visited, incoming, walk_log,
                   suspicious_nodes>>
    /\ UNCHANGED <<rc_pc, metadata, issues, severity, failures>>
    /\ UNCHANGED <<lineage_vars, cache_vars, key_vars, exploration_vars, share_vars>>

WalkIdle ==
    /\ target_node_id = <<>>
    /\ lineage_data = [nodes |-> {}, edges |-> <<>>]
    /\ walk_pc = "idle"
    /\ queue = <<>>
    /\ visited = {}
    /\ incoming = <<>>
    /\ walk_log = <<>>
    /\ rc_result = NoAnalysis

RcIdle ==
    /\ rc_pc = "idle"
    /\ metadata = NoMetadata
    /\ issues = <<>>
    /\ severity = "info"
    /\ failures = <<>>
    /\ suspicious_nodes = <<>>

\* analyze_upstream_dependencies is entered with any graph over the target,
\* ancestor A and a third identity; the third one may be missing from the nodes
InitWalk ==
    /\ target_node_id = WalkTarget
    /\ \E third \in {AncestorB, AncestorDotted} :
         /\ lineage_data \in
                [nodes : {{WalkTarget, AncestorA, third}, {WalkTarget, AncestorA}},
                 edges : EdgeLists({WalkTarget, AncestorA, third})]
    /\ walk_pc = "pop"
    /\ queue = <<target_node_id>>
    /\ visited = initial_visited(target_node_id)
    /\ incoming = <<>>
    /\ walk_log = <<>>
    /\ rc_result = NoAnalysis
    /\ rc_pc = "idle"
    /\ metadata = NoMetadata
    /\ issues = <<>>
    /\ severity = "info"
    /\ failures = <<>>
    /\ suspicious_nodes = <<>>
    /\ upstream_rows = {}
    /\ downstream_rows = {}
    /\ lineage_req = NoRequest
    /\ lineage_deps = [upstream |-> NoDeps, downstream |-> NoDeps]
    /\ lineage_result = NoResponse
    /\ CacheIdle
    /\ KeyIdle
    /\ ExplorationIdle
    /\ ShareIdle

NextWalk ==
    \/ PopQueue
    \/ VisitEdge
    \/ FinishAnalysis

SpecWalk == InitWalk /\ [][NextWalk]_vars

\* the walk is a sequential loop: it takes its next step whenever it has one
SpecWalkFair == InitWalk /\ [][NextWalk]_vars /\ WF_vars(NextWalk)

\* ---------------------------------------------------------------------------
\* The evaluation of one ancestor, check by check
\* ---------------------------------------------------------------------------

FetchMetadata ==
    /\ rc_pc = "fetch"
    /\ \E raised \in BOOLEAN, age \in ModifiedAges, num_rows \in RowCounts :
         /\ metadata' = get_table_metadata(raised, FetchTime - age, num_rows, FetchTime)
         /\ rc_pc' = IF metadata'.ok THEN "check1" ELSE "skipped"
    /\ issues' = EvalStart.issues
    /\ severity' = EvalStart.severity
    /\ UNCHANGED <<failures, suspicious_nodes>>
    /\ UNCHANGED <<lineage_vars, walk_vars, cache_vars, key_vars, exploration_vars, share_vars>>

Check1 ==
    /\ rc_pc = "check1"
    /\ LET st == CheckFreshness([issues |-> issues, severity |-> severity], metadata)
       IN  issues' = st.issues /\ severity' = st.severity
    /\ rc_pc' = "check2"
    /\ UNCHANGED <<metadata, failures, suspicious_nodes>>
    /\ UNCHANGED <<lineage_vars, walk_vars, cache_vars, key_vars, exploration_vars, share_vars>>

Check2 ==
    /\ rc_pc = "check2"
    /\ \E elapsed \in Elapsed :
         LET st == CheckRecentModification([issues |-> issues, severity |-> severity],
                                           metadata, FetchTime + elapsed)
         IN  issues' = st.issues /\ severity' = st.severity
    /\ rc_pc' = "check3"
    /\ UNCHANGED <<metadata, failures, suspicious_nodes>>
    /\ UNCHANGED <<lineage_vars, walk_vars, cache_vars, key_vars, exploration_vars, share_vars>>

Check3 ==
    /\ rc_pc = "check3"
    /\ LET st == CheckEmpty([issues |-> issues, severity |-> severity], metadata)
       IN  issues' = st.issues /\ severity' = st.severity
    /\ rc_pc' = "check4"
    /\ UNCHANGED <<metadata, failures, suspicious_nodes>>
    /\ UNCHANGED <<lineage_vars, walk_vars, cache_vars, key_vars, exploration_vars, share_vars>>

Check4 ==
    /\ rc_pc = "check4"
    /\ \E raised \in BOOLEAN, n \in 0..MaxFailures :
         /\ failures' = get_recent_job_failures(raised, [i \in 1..n |-> i])
         /\ LET st == CheckFailures([issues |-> issues, severity |-> severity], failures')
            IN  issues' = st.issues /\ severity' = st.severity
    /\ rc_pc' = "append"
    /\ UNCHANGED <<metadata, suspicious_nodes>>
    /\ UNCHANGED <<lineage_vars, walk_vars, cache_vars, key_vars, exploration_vars, share_vars>>

AppendSuspicious ==
    /\ rc_pc = "append"
    /\ suspicious_nodes' =
         IF Len(issues) > 0
         THEN Append(suspicious_nodes,
                     SuspiciousNode([issues |-> issues, severity |-> severity],
                                    metadata, failures))
         ELSE suspicious_nodes
    /\ rc_pc' = "done"
    /\ UNCHANGED <<metadata, issues, severity, failures>>
    /\ UNCHANGED <<lineage_vars, walk_vars, cache_vars, key_vars, exploration_vars, share_vars>>

InitEvaluate ==
    /\ rc_pc = "fetch"
    /\ metadata = NoMetadata
    /\ issues = <<>>
    /\ severity = "info"
    /\ failures = <<>>
    /\ suspicious_nodes = <<>>
    /\ upstream_rows = {}
    /\ downstream_rows = {}
    /\ lineage_req = NoRequest
    /\ lineage_deps = [upstream |-> NoDeps, downstream |-> NoDeps]
    /\ lineage_result = NoResponse
    /\ WalkIdle
    /\ CacheIdle
    /\ KeyIdle
    /\ ExplorationIdle
    /\ ShareIdle

NextEvaluate ==
    \/ FetchMetadata
    \/ Check1
    \/ Check2
    \/ Check3
    \/ Check4
    \/ AppendSuspicious

SpecEvaluate == InitEvaluate /\ [][NextEvaluate]_vars

\* ---------------------------------------------------------------------------
\* Lineage requests against a fixed job history
\* ---------------------------------------------------------------------------

InitLineage ==
    /\ upstream_rows \in SUBSET UpstreamRowUniverse
    /\ downstream_rows \in SUBSET DownstreamRowUniverse
    /\ Cardinality(upstream_rows) + Cardinality(downstream_rows) <= MaxRows
    /\ lineage_req = NoRequest
    /\ lineage_deps = [upstream |-> NoDeps, downstream |-> NoDeps]
    /\ lineage_result = NoResponse
    /\ RcIdle
    /\ WalkIdle
    /\ CacheIdle
    /\ KeyIdle
    /\ ExplorationIdle
    /\ ShareIdle

NextLineage == LineageRequest

SpecLineage == InitLineage /\ [][NextLineage]_vars

\* ---------------------------------------------------------------------------
\* The cached read endpoints and the cache administration endpoints, step by
\* step, while Redis goes down and comes back and the warehouse changes
\* ---------------------------------------------------------------------------

Respond(status, body) ==
    /\ read_response' = [status |-> status, body |-> body]
    /\ read_pc' = "done"

\* the request under way has built its result from the source and has not
\* answered yet
SourceRead == read_pc \in {"store_check", "set_check", "set_write"}

\* a request of the behaviour's kind arrives: the handler computes cache_key
StartRequest ==
    /\ read_pc \in {"idle", "done"}
    /\ read_pc' = "lookup"
    /\ cache_key' = CacheKeyOf(request_kind)
    /\ read_result' = NoValue
    /\ read_response' = NoReadResponse
    /\ cache_lost' = {}
    /\ source_outcome' = "none"
    /\ source_version' = 0
    /\ overtaken' = FALSE
    /\ UNCHANGED <<cache_initialized, client_created, redis_up, redis_store, warehouse,
                   request_kind, admin_pc, admin_pattern, admin_resp>>
    /\ UNCHANGED <<lineage_vars, rc_vars, walk_vars, key_vars, exploration_vars, share_vars>>

\* "if cache and cache.is_connected():" before the lookup
LookupCheck ==
    /\ read_pc = "lookup"
    /\ IF CacheAvailable(request_kind)
       THEN /\ read_pc' = "get_check"
            /\ UNCHANGED cache_lost
       ELSE /\ read_pc' = "compute"
            /\ cache_lost' = cache_lost \cup {"lookup"}
    /\ UNCHANGED overtaken
    /\ UNCHANGED <<cache_initialized, client_created, redis_up, redis_store, warehouse,
                   request_kind, cache_key, read_result, read_response, source_outcome,
                   source_version, admin_pc, admin_pattern, admin_resp>>
    /\ UNCHANGED <<lineage_vars, rc_vars, walk_vars, key_vars, exploration_vars, share_vars>>

\* RedisCache.get: "if not self.is_connected(): return None"
GetCheck ==
    /\ read_pc = "get_check"
    /\ IF is_connected
       THEN /\ read_pc' = "get_read"
            /\ UNCHANGED cache_lost
       ELSE /\ read_pc' = "compute"
            /\ cache_lost' = cache_lost \cup {"get_check"}
    /\ UNCHANGED overtaken
    /\ UNCHANGED <<cache_initialized, client_created, redis_up, redis_store, warehouse,
                   request_kind, cache_key, read_result, read_response, source_outcome,
                   source_version, admin_pc, admin_pattern, admin_resp>>
    /\ UNCHANGED <<lineage_vars, rc_vars, walk_vars, key_vars, exploration_vars, share_vars>>

\* RedisCache.get: client.get and json.loads, then the handler's
\* "if cached_data:"; an exception leaving get is outside the handler's try
GetRead ==
    /\ read_pc = "get_read"
    /\ LET got == cache_get(cache_key)
       IN  /\ cache_lost' = IF redis_up THEN cache_lost ELSE cache_lost \cup {"get_read"}
           /\ IF got.raised
              THEN Respond(500, NoValue)
              ELSE IF got.value # NoValue
                   THEN Respond(200, MarkCached(got.value))
                   ELSE /\ read_pc' = "compute"
                        /\ UNCHANGED read_response
    /\ UNCHANGED overtaken
    /\ UNCHANGED <<cache_initialized, client_created, redis_up, redis_store, warehouse,
                   request_kind, cache_key, read_result, source_outcome, source_version,
                   admin_pc, admin_pattern, admin_resp>>
    /\ UNCHANGED <<lineage_vars, rc_vars, walk_vars, key_vars, exploration_vars, share_vars>>

\* get_edge_query: "if len(source_parts) != 3 or len(target_parts) != 3"
InvalidTableFormat(kind) ==
    /\ kind.endpoint = "edge-query"
    /\ (Len(split(kind.args[1], ".")) # 3 \/ Len(split(kind.args[2], ".")) # 3)

\* what the try block does before the result dict: the edge-query handler
\* raises HTTPException(400) on a malformed identity, the source call answers
\* or raises
TryOutcomes(kind) ==
    IF InvalidTableFormat(kind) THEN {"invalid"} ELSE SourceOutcomes(kind.endpoint)

\* the try block of the handler up to the result dict; "except Exception"
\* catches whatever the block raised, an HTTPException included, and raises
\* the handler's own error status
Compute ==
    /\ read_pc = "compute"
    /\ \E outcome \in TryOutcomes(request_kind) :
         /\ source_outcome' = outcome
         /\ source_version' = warehouse
         /\ IF outcome \in {"error", "invalid"}
            THEN /\ Respond(ErrorStatus(request_kind.endpoint), NoValue)
                 /\ UNCHANGED read_result
            ELSE /\ read_result' = Result(request_kind, warehouse, outcome)
                 /\ IF Storable(request_kind, outcome)
                    THEN /\ read_pc' = "store_check"
                         /\ UNCHANGED read_response
                    ELSE Respond(200, read_result')
    /\ UNCHANGED overtaken
    /\ UNCHANGED <<cache_initialized, client_created, redis_up, redis_store, warehouse,
                   request_kind, cache_key, cache_lost, admin_pc, admin_pattern, admin_resp>>
    /\ UNCHANGED <<lineage_vars, rc_vars, walk_vars, key_vars, exploration_vars, share_vars>>

\* "if cache and cache.is_connected():" before the store
StoreCheck ==
    /\ read_pc = "store_check"
    /\ IF CacheAvailable(request_kind)
       THEN /\ read_pc' = "set_check"
            /\ UNCHANGED <<cache_lost, read_response>>
       ELSE /\ cache_lost' = cache_lost \cup {"store_check"}
            /\ Respond(200, read_result)
    /\ UNCHANGED overtaken
    /\ UNCHANGED <<cache_initialized, client_created, redis_up, redis_store, warehouse,
                   request_kind, cache_key, read_result, source_outcome, source_version,
                   admin_pc, admin_pattern, admin_resp>>
    /\ UNCHANGED <<lineage_vars, rc_vars, walk_vars, key_vars, exploration_vars, share_vars>>

\* RedisCache.set: "if not self.is_connected(): return False"
SetCheck ==
    /\ read_pc = "set_check"
    /\ IF is_connected
       THEN /\ read_pc' = "set_write"
            /\ UNCHANGED <<cache_lost, read_response>>
       ELSE /\ cache_lost' = cache_lost \cup {"set_check"}
            /\ Respond(200, read_result)
    /\ UNCHANGED overtaken
    /\ UNCHANGED <<cache_initialized, client_created, redis_up, redis_store, warehouse,
                   request_kind, cache_key, read_result, source_outcome, source_version,
                   admin_pc, admin_pattern, admin_resp>>
    /\ UNCHANGED <<lineage_vars, rc_vars, walk_vars, key_vars, exploration_vars, share_vars>>

\* RedisCache.set: json.dumps and setex, then the handler returns result
SetWrite ==
    /\ read_pc = "set_write"
    /\ redis_store' = cache_set(cache_key, read_result, TtlOf(request_kind.endpoint))
    /\ cache_lost' = IF redis_up THEN cache_lost ELSE cache_lost \cup {"set_write"}
    /\ Respond(200, read_result)
    /\ UNCHANGED overtaken
    /\ UNCHANGED <<cache_initialized, client_created, redis_up, warehouse,
                   request_kind, cache_key, read_result, source_outcome, source_version,
                   admin_pc, admin_pattern, admin_resp>>
    /\ UNCHANGED <<lineage_vars, rc_vars, walk_vars, key_vars, exploration_vars, share_vars>>

\* the Redis server stops answering, or answers again
ToggleRedis ==
    /\ redis_up' = ~redis_up
    /\ UNCHANGED overtaken
    /\ UNCHANGED <<cache_initialized, client_created, redis_store, warehouse, request_kind,
                   read_pc, cache_key, read_result, read_response, cache_lost,
                   source_outcome, source_version, admin_pc, admin_pattern, admin_resp>>
    /\ UNCHANGED <<lineage_vars, rc_vars, walk_vars, key_vars, exploration_vars, share_vars>>

\* the warehouse content changes
WarehouseChanges ==
    /\ warehouse < MaxChanges
    /\ warehouse' = warehouse + 1
    /\ UNCHANGED overtaken
    /\ UNCHANGED <<cache_initialized, client_created, redis_up, redis_store, request_kind,
                   read_pc, cache_key, read_result, read_response, cache_lost,
                   source_outcome, source_version, admin_pc, admin_pattern, admin_resp>>
    /\ UNCHANGED <<lineage_vars, rc_vars, walk_vars, key_vars, exploration_vars, share_vars>>

\* an answered administration request: what was sent back, whether the
\* handler and the RedisCache method found the cache connected, which keys
\* went and which entries stayed
AdminResponse(op, pattern, status, keys_deleted, connected, call_connected, deleted) ==
    [op |-> op, pattern |-> pattern, status |-> status, keys_deleted |-> keys_deleted,
     connected |-> connected, call_connected |-> call_connected, deleted |-> deleted,
     remaining |-> {e \in redis_store : e.key \notin deleted}]

\* GET /api/cache/stats: "if not cache.is_connected(): raise HTTPException(503)"
StatsCheck ==
    /\ cache_initialized
    /\ admin_pc = "idle"
    /\ admin_pattern' = << >>
    /\ IF is_connected
       THEN /\ admin_pc' = "stats"
            /\ admin_resp' = NoAdminResponse
       ELSE /\ admin_pc' = "idle"
            /\ admin_resp' = AdminResponse("stats", << >>, 503, 0, FALSE, FALSE, {})
    /\ UNCHANGED overtaken
    /\ UNCHANGED <<cache_initialized, client_created, redis_up, redis_store, warehouse,
                   request_kind, read_pc, cache_key, read_result, read_response,
                   cache_lost, source_outcome, source_version>>
    /\ UNCHANGED <<lineage_vars, rc_vars, walk_vars, key_vars, exploration_vars, share_vars>>

\* cache.get_stats() and the response: the dict is returned whatever it says
StatsCall ==
    /\ admin_pc = "stats"
    /\ admin_pc' = "idle"
    /\ admin_resp' = AdminResponse("stats", << >>, 200, 0, TRUE, is_connected, {})
    /\ UNCHANGED overtaken
    /\ UNCHANGED <<cache_initialized, client_created, redis_up, redis_store, warehouse,
                   request_kind, read_pc, cache_key, read_result, read_response,
                   cache_lost, source_outcome, source_version, admin_pattern>>
    /\ UNCHANGED <<lineage_vars, rc_vars, walk_vars, key_vars, exploration_vars, share_vars>>

\* DELETE /api/cache/clear: "if cache.is_connected():", else a plain answer
ClearCheck ==
    /\ cache_initialized
    /\ admin_pc = "idle"
    /\ admin_pattern' = << >>
    /\ IF is_connected
       THEN /\ admin_pc' = "clear"
            /\ admin_resp' = NoAdminResponse
       ELSE /\ admin_pc' = "idle"
            /\ admin_resp' = AdminResponse("clear", << >>, 200, 0, FALSE, FALSE, {})
    /\ UNCHANGED overtaken
    /\ UNCHANGED <<cache_initialized, client_created, redis_up, redis_store, warehouse,
                   request_kind, read_pc, cache_key, read_result, read_response,
                   cache_lost, source_outcome, source_version>>
    /\ UNCHANGED <<lineage_vars, rc_vars, walk_vars, key_vars, exploration_vars, share_vars>>

\* cache.clear_all(): flushdb unless Redis is gone; the answer is the same
ClearCall ==
    /\ admin_pc = "clear"
    /\ admin_pc' = "idle"
    /\ redis_store' = IF is_connected THEN {} ELSE redis_store
    /\ admin_resp' = AdminResponse("clear", << >>, 200, 0, TRUE, is_connected,
                                   IF is_connected THEN {e.key : e \in redis_store} ELSE {})
    /\ overtaken' = (overtaken \/ (is_connected /\ SourceRead))
    /\ UNCHANGED <<cache_initialized, client_created, redis_up, warehouse,
                   request_kind, read_pc, cache_key, read_result, read_response,
                   cache_lost, source_outcome, source_version, admin_pattern>>
    /\ UNCHANGED <<lineage_vars, rc_vars, walk_vars, key_vars, exploration_vars, share_vars>>

\* DELETE /api/cache/clear/{pattern}: the connectivity check, then the allow-list
PatternCheck ==
    /\ cache_initialized
    /\ admin_pc = "idle"
    /\ \E pattern \in Patterns :
         /\ admin_pattern' = pattern
         /\ IF ~is_connected
            THEN /\ admin_pc' = "idle"
                 /\ admin_resp' = AdminResponse("clear_pattern", pattern, 503, 0, FALSE, FALSE, {})
            ELSE IF pattern \notin SeqToSet(allowed_patterns)
                 THEN /\ admin_pc' = "idle"
                      /\ admin_resp' = AdminResponse("clear_pattern", pattern, 400, 0, TRUE, FALSE, {})
                 ELSE /\ admin_pc' = "pattern"
                      /\ admin_resp' = NoAdminResponse
    /\ UNCHANGED overtaken
    /\ UNCHANGED <<cache_initialized, client_created, redis_up, redis_store, warehouse,
                   request_kind, read_pc, cache_key, read_result, read_response,
                   cache_lost, source_outcome, source_version>>
    /\ UNCHANGED <<lineage_vars, rc_vars, walk_vars, key_vars, exploration_vars, share_vars>>

\* cache.delete_pattern(pattern): keys(pattern) and delete, 0 when Redis is gone
PatternCall ==
    /\ admin_pc = "pattern"
    /\ admin_pc' = "idle"
    /\ LET keys == IF is_connected THEN MatchingKeys(admin_pattern) ELSE {}
       IN  /\ redis_store' = {e \in redis_store : e.key \notin keys}
           /\ admin_resp' = AdminResponse("clear_pattern", admin_pattern, 200,
                                          Cardinality(keys), TRUE, is_connected, keys)
    /\ overtaken' = (overtaken \/ (is_connected /\ SourceRead /\ GlobMatch(admin_pattern, cache_key)))
    /\ UNCHANGED <<cache_initialized, client_created, redis_up, warehouse,
                   request_kind, read_pc, cache_key, read_result, read_response,
                   cache_lost, source_outcome, source_version, admin_pattern>>
    /\ UNCHANGED <<lineage_vars, rc_vars, walk_vars, key_vars, exploration_vars, share_vars>>

\* the application after start-up: init_cache() ran or the router is served
\* without it; RedisCache.__init__ got its client exactly if Redis answered
InitCache ==
    /\ cache_initialized \in BOOLEAN
    /\ redis_up \in BOOLEAN
    /\ client_created = (cache_initialized /\ redis_up)
    /\ request_kind \in {k \in RequestKinds : cache_initialized \/ k.endpoint \in RouterEndpoints}
    /\ redis_store = {}
    /\ warehouse = 0
    /\ read_pc = "idle"
    /\ cache_key = << >>
    /\ read_result = NoValue
    /\ read_response = NoReadResponse
    /\ cache_lost = {}
    /\ source_outcome = "none"
    /\ source_version = 0
    /\ admin_pc = "idle"
    /\ admin_pattern = << >>
    /\ admin_resp = NoAdminResponse
    /\ overtaken = FALSE
    /\ upstream_rows = {}
    /\ downstream_rows = {}
    /\ lineage_req = NoRequest
    /\ lineage_deps = [upstream |-> NoDeps, downstream |-> NoDeps]
    /\ lineage_result = NoResponse
    /\ RcIdle
    /\ WalkIdle
    /\ KeyIdle
    /\ ExplorationIdle
    /\ ShareIdle

NextCache ==
    \/ StartRequest
    \/ LookupCheck
    \/ GetCheck
    \/ GetRead
    \/ Compute
    \/ StoreCheck
    \/ SetCheck
    \/ SetWrite
    \/ ToggleRedis
    \/ WarehouseChanges
    \/ StatsCheck
    \/ StatsCall
    \/ ClearCheck
    \/ ClearCall
    \/ PatternCheck
    \/ PatternCall

SpecCache == InitCache /\ [][NextCache]_vars

\* ---------------------------------------------------------------------------
\* generate_cache_key called with argument lists around the length threshold
\* ---------------------------------------------------------------------------

\* lengths of the arguments a call is made with
KeyPartLengths == {1, 2, 47, 48, 49, 50, 96, 97, 98, 99, 100, 101}

KeyPart(n) == [i \in 1..n |-> "x"]

\* one or two arguments
KeyArgLists ==
    {<<KeyPart(n)>> : n \in KeyPartLengths}
        \cup {<<KeyPart(n), KeyPart(m)>> : n, m \in KeyPartLengths}

\* the default prefix and one a caller passes
KeyPrefixes == {DEFAULT_PREFIX, <<"e", "x", "p">>}

DeriveKey ==
    /\ \E prefix \in KeyPrefixes, args \in KeyArgLists :
         /\ key_prefix' = prefix
         /\ key_args' = args
         /\ derived_key' = generate_cache_key(args, prefix)
    /\ UNCHANGED <<lineage_vars, rc_vars, walk_vars, cache_vars, exploration_vars, share_vars>>

InitKey ==
    /\ KeyIdle
    /\ ExplorationIdle
    /\ ShareIdle
    /\ CacheIdle
    /\ upstream_rows = {}
    /\ downstream_rows = {}
    /\ lineage_req = NoRequest
    /\ lineage_deps = [upstream |-> NoDeps, downstream |-> NoDeps]
    /\ lineage_result = NoResponse
    /\ RcIdle
    /\ WalkIdle

NextKey == DeriveKey

SpecKey == InitKey /\ [][NextKey]_vars

\* ---------------------------------------------------------------------------
\* Requests on the cells of an exploration
\* ---------------------------------------------------------------------------

\* POST /explorations/{id}/cells: appended, or inserted at an index from 0 to
\* the number of cells
CreateCell ==
    /\ cells_created < MaxCells
    /\ \E cell_type \in {"sql", "markdown", "chart"},
          requested_index \in {NoInt} \cup {SomeInt(n) : n \in 0..Cardinality(cells)} :
         LET id == cells_created + 1
             status == IF cell_type \notin CELL_TYPES THEN 400 ELSE 201
             session == IF status = 201
                        THEN create_cell(cells, id, cell_type, requested_index)
                        ELSE cells
         IN  /\ cells' = get_db(cells, session, status # 201)
             /\ cells_created' = IF status = 201 THEN id ELSE cells_created
             /\ exp_response' = ExpResponse("create", status, IF status = 201 THEN id ELSE 0,
                                            "none", 0)
    /\ UNCHANGED <<lineage_vars, rc_vars, walk_vars, cache_vars, key_vars, share_vars>>

\* DELETE /explorations/{id}/cells/{cell_id}
DeleteCell ==
    /\ \E cell_id \in 1..MaxCells :
         LET found == {c \in cells : c.id = cell_id}
             status == IF found = {} THEN 404 ELSE 204
             session == IF status = 204
                        THEN delete_cell(cells, CHOOSE c \in found : TRUE) ELSE cells
         IN  /\ cells' = get_db(cells, session, status # 204)
             /\ exp_response' = ExpResponse("delete", status, cell_id, "none", 0)
    /\ UNCHANGED cells_created
    /\ UNCHANGED <<lineage_vars, rc_vars, walk_vars, cache_vars, key_vars, share_vars>>

\* what an execution can meet: a cached result of an earlier start time, rows
\* from the warehouse, or an error of the warehouse
ExecuteOutcomes ==
    {[kind |-> k, start_time |-> s, cached_at |-> s] : k \in {"ok", "error"}, s \in ClockReads}
    \cup {o \in [kind : {"hit"}, start_time : ClockReads, cached_at : ClockReads] :
             o.cached_at <= o.start_time}

\* POST /explorations/{id}/cells/{cell_id}/execute
ExecuteCell ==
    /\ \E cell_id \in 1..MaxCells, outcome \in ExecuteOutcomes :
         LET found == {c \in cells : c.id = cell_id}
             cell == CHOOSE c \in found : TRUE
             status == IF found = {} THEN 404
                       ELSE IF cell.cell_type # "sql" THEN 400
                       ELSE IF outcome.kind = "error" THEN 400 ELSE 200
             ran == found # {} /\ cell.cell_type = "sql"
             output == IF outcome.kind = "error"
                       THEN [kind |-> "error", executed_at |-> outcome.start_time,
                             cached |-> FALSE]
                       ELSE [kind |-> "rows", executed_at |-> outcome.cached_at,
                             cached |-> FALSE]
             session == IF ran THEN set_output(cells, cell, output) ELSE cells
         IN  /\ cells' = get_db(cells, session, status # 200)
             /\ exp_response' = ExpResponse("execute", status, cell_id,
                                            IF ran THEN outcome.kind ELSE "none",
                                            IF ran THEN outcome.start_time ELSE 0)
    /\ UNCHANGED cells_created
    /\ UNCHANGED <<lineage_vars, rc_vars, walk_vars, cache_vars, key_vars, share_vars>>

\* a cell request of a user without edit access: check_exploration_access raises
CellRequestDenied ==
    /\ \E op \in {"create", "delete", "execute"} :
         /\ cells' = get_db(cells, cells, TRUE)
         /\ exp_response' = ExpResponse(op, 403, 0, "none", 0)
    /\ UNCHANGED cells_created
    /\ UNCHANGED <<lineage_vars, rc_vars, walk_vars, cache_vars, key_vars, share_vars>>

InitExploration ==
    /\ ExplorationIdle
    /\ ShareIdle
    /\ KeyIdle
    /\ CacheIdle
    /\ upstream_rows = {}
    /\ downstream_rows = {}
    /\ lineage_req = NoRequest
    /\ lineage_deps = [upstream |-> NoDeps, downstream |-> NoDeps]
    /\ lineage_result = NoResponse
    /\ RcIdle
    /\ WalkIdle

NextExploration ==
    \/ CreateCell
    \/ DeleteCell
    \/ ExecuteCell
    \/ CellRequestDenied

SpecExploration == InitExploration /\ [][NextExploration]_vars

\* ---------------------------------------------------------------------------
\* Requests on the shares of an exploration
\* ---------------------------------------------------------------------------

\* POST /explorations/{id}/shares
CreateShare ==
    /\ Cardinality(shares) < MaxShares
    /\ \E user_id \in {OwnerId, "u1"}, data \in ShareCreates :
         LET id == Cardinality(shares) + 1
             status == IF exploration.user_id # user_id THEN 403 ELSE 201
             share == [id |-> id,
                       shared_with_user_id |-> data.shared_with_user_id,
                       permission_level |-> data.permission_level,
                       share_token |-> IF data.create_link THEN id ELSE NoToken,
                       expires_at |-> ExpiresAt(data.expires_in_hours, clock)]
         IN  /\ shares' = IF status = 201 THEN shares \cup {share} ELSE shares
             /\ access_result' = [op |-> "create", user_id |-> user_id,
                                  require_edit |-> FALSE, token |-> NoToken,
                                  status |-> status, at |-> clock]
    /\ UNCHANGED <<exploration, clock>>
    /\ UNCHANGED <<lineage_vars, rc_vars, walk_vars, cache_vars, key_vars, exploration_vars>>

\* a request of a user that passes through check_exploration_access
CheckAccess ==
    /\ \E found \in BOOLEAN, user_id \in UserIds, require_edit \in BOOLEAN,
          loaded \in LoadOrders(shares) :
         access_result' = [op |-> "check", user_id |-> user_id,
                           require_edit |-> require_edit, token |-> NoToken,
                           status |-> check_exploration_access(found, exploration, loaded,
                                                               user_id, require_edit),
                           at |-> clock]
    /\ UNCHANGED <<exploration, shares, clock>>
    /\ UNCHANGED <<lineage_vars, rc_vars, walk_vars, cache_vars, key_vars, exploration_vars>>

\* GET /explorations/shared/{token}
GetShared ==
    /\ \E token \in 1..MaxShares :
         access_result' = [op |-> "token", user_id |-> NoUser, require_edit |-> FALSE,
                           token |-> token,
                           status |-> get_shared_exploration(shares, token, clock),
                           at |-> clock]
    /\ UNCHANGED <<exploration, shares, clock>>
    /\ UNCHANGED <<lineage_vars, rc_vars, walk_vars, cache_vars, key_vars, exploration_vars>>

\* an hour passes
Tick ==
    /\ clock < MaxTime
    /\ clock' = clock + 1
    /\ UNCHANGED <<exploration, shares, access_result>>
    /\ UNCHANGED <<lineage_vars, rc_vars, walk_vars, cache_vars, key_vars, exploration_vars>>

InitShares ==
    /\ exploration \in [user_id : {OwnerId}, is_public : BOOLEAN]
    /\ shares = {}
    /\ clock = 0
    /\ access_result = NoAccessResult
    /\ ExplorationIdle
    /\ KeyIdle
    /\ CacheIdle
    /\ upstream_rows = {}
    /\ downstream_rows = {}
    /\ lineage_req = NoRequest
    /\ lineage_deps = [upstream |-> NoDeps, downstream |-> NoDeps]
    /\ lineage_result = NoResponse
    /\ RcIdle
    /\ WalkIdle

NextShares ==
    \/ CreateShare
    \/ CheckAccess
    \/ GetShared
    \/ Tick

SpecShares == InitShares /\ [][NextShares]_vars

\* ---------------------------------------------------------------------------
\* Properties of the lineage graph (checked under SpecLineage)
\* ---------------------------------------------------------------------------

Responded == lineage_result.status = 200

RootId == RowId(lineage_req.root)

WantsUpstream == lineage_req.direction \in {"upstream", "both"}

WantsDownstream == lineage_req.direction \in {"downstream", "both"}

\* rows with a table name that a requested, successful query delivered
UpstreamDelivered ==
    IF WantsUpstream /\ ~lineage_req.upstream_query.raised
    THEN {r \in SeqToSet(lineage_req.upstream_query.rows) : r.table # NullTable} ELSE {}

DownstreamDelivered ==
    IF WantsDownstream /\ ~lineage_req.downstream_query.raised
    THEN {r \in SeqToSet(lineage_req.downstream_query.rows) : r.table # NullTable} ELSE {}

DiscoveredEdges == lineage_deps.upstream.edges \o lineage_deps.downstream.edges

DiscoveredNodes == lineage_deps.upstream.nodes \o lineage_deps.downstream.nodes

EdgePairs(edges) == {<<edges[i].source, edges[i].target>> : i \in 1..Len(edges)}

NodeIds(nodes) == {nodes[i].id : i \in 1..Len(nodes)}

\* C1: the node list of a response holds at most one node per identity string
C1_NoDuplicateNodes ==
    \A i, j \in 1..Len(lineage_result.nodes) :
        lineage_result.nodes[i].id = lineage_result.nodes[j].id => i = j

\* a response whose accumulated node list named one identity more than once
C1_Witness ==
    /\ Responded
    /\ \E i, j \in 1..Len(DiscoveredNodes) : i # j /\ DiscoveredNodes[i].id = DiscoveredNodes[j].id
    /\ Len(lineage_result.nodes) < 1 + Len(DiscoveredNodes)

\* C2: the node whose id is rootNode has level 0 in every response, also when
\* the job history re-discovers the root as a dependency
C2_RootLevelZero ==
    Responded =>
        \A i \in 1..Len(lineage_result.nodes) :
            lineage_result.nodes[i].id = lineage_result.rootNode
                => lineage_result.nodes[i].level = 0

\* C3 as stated: no response holds an edge whose source equals its target
C3_NoSelfEdge ==
    \A i \in 1..Len(lineage_result.edges) :
        lineage_result.edges[i].source # lineage_result.edges[i].target

RootRediscovered ==
    \E r \in UpstreamDelivered \cup DownstreamDelivered : RowId(r) = RootId

\* C3 amended: a response holds a self-edge exactly when a delivered row has the
\* identity of the requested table, and that self-edge is root -> root
C3_SelfEdgeOnlyAtRoot ==
    Responded =>
        /\ (\E i \in 1..Len(lineage_result.edges) :
               lineage_result.edges[i].source = lineage_result.edges[i].target)
           <=> RootRediscovered
        /\ \A i \in 1..Len(lineage_result.edges) :
               lineage_result.edges[i].source = lineage_result.edges[i].target
                   => lineage_result.edges[i].source = lineage_result.rootNode

\* a job that reads and writes the requested table was delivered and the
\* response holds the self-edge
C3_Witness ==
    /\ Responded
    /\ RootRediscovered
    /\ \E i \in 1..Len(lineage_result.edges) :
           /\ lineage_result.edges[i].source = RootId
           /\ lineage_result.edges[i].target = RootId

\* C4: the edge list of a response holds exactly one edge for each distinct
\* (source, target) pair among the discovered edges
C4_OneEdgePerPair ==
    Responded =>
        /\ EdgePairs(lineage_result.edges) = EdgePairs(DiscoveredEdges)
        /\ \A i, j \in 1..Len(lineage_result.edges) :
               (/\ lineage_result.edges[i].source = lineage_result.edges[j].source
                /\ lineage_result.edges[i].target = lineage_result.edges[j].target) => i = j

\* C5: every edge points from the read table to the written table: upstream
\* discovery gives row -> root, downstream discovery gives root -> row, and a
\* response holds no other edge
C5_EdgesPointDownstream ==
    /\ EdgePairs(lineage_deps.upstream.edges) = {<<RowId(r), RootId>> : r \in UpstreamDelivered}
    /\ EdgePairs(lineage_deps.downstream.edges) = {<<RootId, RowId(r)>> : r \in DownstreamDelivered}
    /\ EdgePairs(lineage_result.edges) \subseteq
           {<<RowId(r), RootId>> : r \in UpstreamDelivered}
               \cup {<<RootId, RowId(r)>> : r \in DownstreamDelivered}

\* both directions discovered a table other than the root
C5_Witness ==
    /\ Responded
    /\ lineage_req.direction = "both"
    /\ \E r \in UpstreamDelivered : RowId(r) # RootId
    /\ \E r \in DownstreamDelivered : RowId(r) # RootId
    /\ Len(lineage_result.edges) >= 2

SameRowsRequested(a, b) ==
    /\ a.direction # "none"
    /\ a.root = b.root
    /\ a.direction = b.direction
    /\ a.upstream_query.raised = b.upstream_query.raised
    /\ a.downstream_query.raised = b.downstream_query.raised
    /\ SeqToSet(a.upstream_query.rows) = SeqToSet(b.upstream_query.rows)
    /\ SeqToSet(a.downstream_query.rows) = SeqToSet(b.downstream_query.rows)

\* C6: two builds from the same rows, delivered in any two orders, give the
\* same set of nodes (with all attributes) and the same set of edges
C6_OrderIndependent ==
    [][(SameRowsRequested(lineage_req, lineage_req') /\ lineage_req.depth = lineage_req'.depth)
        => /\ SeqToSet(lineage_result'.nodes) = SeqToSet(lineage_result.nodes)
           /\ SeqToSet(lineage_result'.edges) = SeqToSet(lineage_result.edges)]_vars

\* a build from two upstream rows, one of them without table name, delivered
\* with the named row last
C6_Witness ==
    /\ Responded
    /\ WantsUpstream
    /\ ~lineage_req.upstream_query.raised
    /\ Len(lineage_req.upstream_query.rows) = 2
    /\ lineage_req.upstream_query.rows[1].table = NullTable
    /\ lineage_req.upstream_query.rows[2].table # NullTable
    /\ Len(lineage_result.nodes) >= 2

\* C7: one level of expansion whatever the depth: builds that differ only in
\* depth give the same nodes and edges, and every non-root node has level 1
C7_DepthIgnored ==
    /\ [](\A i \in 1..Len(lineage_result.nodes) :
            lineage_result.nodes[i].id # lineage_result.rootNode
                => lineage_result.nodes[i].level = 1)
    /\ [][SameRowsRequested(lineage_req, lineage_req')
            => /\ SeqToSet(lineage_result'.nodes) = SeqToSet(lineage_result.nodes)
               /\ SeqToSet(lineage_result'.edges) = SeqToSet(lineage_result.edges)]_vars

\* a build at depth 5 that discovered a table other than the root
C7_Witness ==
    /\ Responded
    /\ lineage_req.depth = 5
    /\ \E i \in 1..Len(lineage_result.nodes) :
           lineage_result.nodes[i].id # lineage_result.rootNode

\* C8: a failed job-history query contributes nothing, the request succeeds
\* and returns the root plus what the other direction discovered
C8_QueryFailureTolerated ==
    (lineage_req.direction # "none"
     /\ \/ WantsUpstream /\ lineage_req.upstream_query.raised
        \/ WantsDownstream /\ lineage_req.downstream_query.raised)
    => /\ Responded
       /\ (WantsUpstream /\ lineage_req.upstream_query.raised)
              => lineage_deps.upstream = NoDeps
       /\ (WantsDownstream /\ lineage_req.downstream_query.raised)
              => lineage_deps.downstream = NoDeps
       /\ NodeIds(lineage_result.nodes) =
              {RootId} \cup {RowId(r) : r \in UpstreamDelivered \cup DownstreamDelivered}
       /\ EdgePairs(lineage_result.edges) =
              {<<RowId(r), RootId>> : r \in UpstreamDelivered}
                  \cup {<<RootId, RowId(r)>> : r \in DownstreamDelivered}

\* the upstream query failed and the downstream one discovered a table
C8_Witness ==
    /\ Responded
    /\ lineage_req.direction = "both"
    /\ lineage_req.upstream_query.raised
    /\ DownstreamDelivered # {}
    /\ Len(lineage_result.nodes) >= 2
    /\ Len(lineage_result.edges) >= 1

\* ---------------------------------------------------------------------------
\* Properties of the evaluation of one ancestor (checked under SpecEvaluate)
\* ---------------------------------------------------------------------------

\* C9: severity only escalates during the evaluation of one ancestor: no check
\* lowers it, so once it is critical it stays critical
C9_SeverityOnlyEscalates ==
    [][/\ SeverityRank(severity') <= SeverityRank(severity)
       /\ severity = "critical" => severity' = "critical"]_vars

\* the freshness check made the ancestor critical and later checks added issues
C9_Witness ==
    /\ rc_pc = "append"
    /\ Len(issues) >= 3
    /\ metadata.freshness = "stale"
    /\ severity = "critical"

SEVEN_DAYS_HOURS == 168

\* C10: freshness is fresh under 24 hours, recent under 168 hours, stale
\* otherwise, and an ancestor modified 72 to 168 hours ago is recent and not
\* made critical by the freshness check
C10_FreshnessSevenDays ==
    metadata.ok =>
        LET age == FetchTime - metadata.modifiedAt IN
        /\ metadata.freshness =
               (IF age < FRESH_HOURS THEN "fresh"
                ELSE IF age < SEVEN_DAYS_HOURS THEN "recent" ELSE "stale")
        /\ (rc_pc = "check2" /\ age >= RECENT_HOURS /\ age < SEVEN_DAYS_HOURS)
               => severity # "critical"

\* ---------------------------------------------------------------------------
\* Properties of the root-cause walk (checked under SpecWalk, SpecWalkFair)
\* ---------------------------------------------------------------------------

WalkDone == walk_pc = "done"

LoggedIds == {walk_log[i].id : i \in 1..Len(walk_log)}

ReportedIds == {rc_result.suspiciousNodes[i].node.id : i \in 1..Len(rc_result.suspiciousNodes)}

\* the walk met exactly one ancestor: modified 2 days ago, not empty, no failures
SingleAncestorTwoDaysOld ==
    /\ WalkDone
    /\ Len(walk_log) = 1
    /\ walk_log[1].step = "evaluated"
    /\ FetchTime - walk_log[1].metadata.modifiedAt = 48
    /\ walk_log[1].metadata.numRows # 0
    /\ walk_log[1].failures = <<>>

\* C11 as stated: such an ancestor is reported without issues and the
\* recommendation is the "no obvious upstream issues" message
C11_TwoDaysOldNoIssues ==
    SingleAncestorTwoDaysOld =>
        /\ rc_result.suspiciousNodes = <<>>
        /\ rc_result.recommendation.kind = "no_obvious_issues"

\* C11 amended: such an ancestor is reported as recent with the single issue
\* "Data may be outdated (>24 hours old)" and severity warning, and the
\* recommendation is the "check the flagged upstream tables" message
C11_TwoDaysOldFlaggedOutdated ==
    SingleAncestorTwoDaysOld =>
        /\ Len(rc_result.suspiciousNodes) = 1
        /\ rc_result.suspiciousNodes[1].node.id = walk_log[1].id
        /\ rc_result.suspiciousNodes[1].freshness = "recent"
        /\ rc_result.suspiciousNodes[1].issues = <<"Data may be outdated (>24 hours old)">>
        /\ rc_result.suspiciousNodes[1].severity = "warning"
        /\ rc_result.recommendation.kind = "check_flagged"

C11_Witness ==
    /\ SingleAncestorTwoDaysOld
    /\ Len(rc_result.suspiciousNodes) = 1

\* C12: an analysed ancestor with 0 rows is reported critical with the
\* "Table is empty" issue whatever its freshness and failures; when it is the
\* only ancestor the recommendation names its table
C12_EmptyTableCritical ==
    WalkDone =>
        \A i \in 1..Len(walk_log) :
            (walk_log[i].step = "evaluated" /\ walk_log[i].metadata.numRows = 0) =>
                /\ \E k \in 1..Len(rc_result.suspiciousNodes) :
                       /\ rc_result.suspiciousNodes[k].node.id = walk_log[i].id
                       /\ rc_result.suspiciousNodes[k].severity = "critical"
                       /\ \E m \in 1..Len(rc_result.suspiciousNodes[k].issues) :
                              rc_result.suspiciousNodes[k].issues[m] = "Table is empty (0 rows)"
                /\ Len(walk_log) = 1 =>
                       /\ rc_result.recommendation.kind = "start_investigating"
                       /\ rc_result.recommendation.table = split(walk_log[i].id, ".")[3]

\* the only ancestor is empty, a day or more old, and has no failures
C12_Witness ==
    /\ WalkDone
    /\ Len(walk_log) = 1
    /\ walk_log[1].step = "evaluated"
    /\ walk_log[1].metadata.numRows = 0
    /\ walk_log[1].metadata.freshness = "recent"
    /\ walk_log[1].failures = <<>>
    /\ rc_result.recommendation.table = <<"a">>

\* position of the entry of an ancestor in the list before sorting
DiscoveryIndex(id) ==
    CHOOSE i \in 1..Len(suspicious_nodes) : suspicious_nodes[i].node.id = id

\* C13: the returned list is ordered by severity rank and entries of equal
\* severity keep the order in which the walk appended them
C13_SortedStable ==
    WalkDone =>
        /\ SeqToSet(rc_result.suspiciousNodes) = SeqToSet(suspicious_nodes)
        /\ Len(rc_result.suspiciousNodes) = Len(suspicious_nodes)
        /\ \A i, j \in 1..Len(rc_result.suspiciousNodes) :
               i < j =>
                   LET a == rc_result.suspiciousNodes[i]
                       b == rc_result.suspiciousNodes[j]
                   IN  /\ SeverityRank(a.severity) <= SeverityRank(b.severity)
                       /\ a.severity = b.severity
                              => DiscoveryIndex(a.node.id) < DiscoveryIndex(b.node.id)

\* the walk found a warning before a critical ancestor: the sort moved them
C13_Witness ==
    /\ WalkDone
    /\ Len(suspicious_nodes) = 2
    /\ suspicious_nodes[1].severity = "warning"
    /\ suspicious_nodes[2].severity = "critical"
    /\ rc_result.suspiciousNodes[1] = suspicious_nodes[2]

\* C14: analyzedNodes is the number of upstream ancestors the walk visited
C14_AnalyzedNodesCountsAncestors ==
    WalkDone => rc_result.analyzedNodes = Cardinality(visited \ {target_node_id})

\* C15: an ancestor whose metadata fetch or failure-history fetch failed is
\* not in the returned list, and the analysis completes
C15_FetchErrorSkipsAncestor ==
    WalkDone =>
        /\ rc_result.status = 200
        /\ \A i \in 1..Len(walk_log) :
               (walk_log[i].step = "no_metadata" \/ walk_log[i].failures_raised)
                   => walk_log[i].id \notin ReportedIds

\* C16: the walk over any edge list ends, looks at each ancestor identity at
\* most once and never at the target itself
C16_WalkTerminatesOncePerAncestor ==
    /\ <>WalkDone
    /\ [](/\ \A i, j \in 1..Len(walk_log) : walk_log[i].id = walk_log[j].id => i = j
          /\ target_node_id \notin LoggedIds
          /\ LoggedIds \subseteq visited)

\* a finished walk over a cycle through the target
C16_Witness ==
    /\ WalkDone
    /\ \E i, j \in 1..Len(lineage_data.edges) :
           /\ lineage_data.edges[i].source = target_node_id
           /\ lineage_data.edges[i].target = AncestorA
           /\ lineage_data.edges[j].source = AncestorA
           /\ lineage_data.edges[j].target = target_node_id
    /\ Len(walk_log) = 1

\* ---------------------------------------------------------------------------
\* Properties of the cache and its endpoints (checked under SpecCache)
\* ---------------------------------------------------------------------------

ReadDone == read_pc = "done"

\* C17: every entry the lineage endpoint wrote has a key that starts with
\* "lineage:", and right after a pattern clear of "lineage:*" that succeeded
\* on a connected cache no entry of the lineage endpoint is left to be hit
C17_LineageEntriesInNamespace ==
    /\ \A e \in redis_store :
         e.value.endpoint = "lineage" => startswith(e.key, <<"l", "i", "n", "e", "a", "g", "e", ":">>)
    /\ (/\ admin_resp.op = "clear_pattern"
        /\ admin_resp.pattern = <<"l", "i", "n", "e", "a", "g", "e", ":", "*">>
        /\ admin_resp.status = 200
        /\ admin_resp.call_connected)
       => \A e \in admin_resp.remaining : e.value.endpoint # "lineage"

\* C18: a pattern clear with a pattern outside the allow-list is answered
\* with a 4xx status and deletes no key, whatever the state of the cache
C18_UnlistedPatternRejected ==
    (admin_resp.op = "clear_pattern" /\ admin_resp.pattern \notin SeqToSet(allowed_patterns))
    => (admin_resp.status \in 400..499 /\ admin_resp.deleted = {})

\* C19: no endpoint answers with an error status because the cache is away:
\* the administration endpoints answer below 500 when they found the cache
\* disconnected, and a read whose source call succeeded answers 200
C19_CacheLossNeverAnError ==
    /\ (admin_resp.op # "none" /\ ~admin_resp.connected) => admin_resp.status < 500
    /\ (ReadDone /\ source_outcome \in {"ok", "empty", "large"}) => read_response.status = 200

\* C20: a read that found the cache absent or unavailable at any of its cache
\* steps, and whose source call succeeded, answers 200 with the payload built
\* from the source and cached = false, the same payload a miss on a healthy
\* cache answers with
C20_CacheLossTransparent ==
    LET FromSource ==
            [status |-> 200, body |-> Result(request_kind, source_version, source_outcome)]
    IN  /\ (ReadDone /\ cache_lost # {} /\ source_outcome \notin {"error", "invalid"})
           => read_response = FromSource
        /\ (ReadDone /\ cache_lost = {} /\ source_outcome \in {"ok", "empty", "large"})
           => read_response = FromSource

C20_Witness ==
    /\ ReadDone
    /\ read_response.status = 200
    /\ {"get_read", "set_write"} \subseteq cache_lost

\* C21: a hit answers with the payload a miss of the same request kind stored,
\* marked cached = true, and the step that answers it neither calls the
\* warehouse nor writes to the cache
C21_HitReturnsStored ==
    [][(read_pc = "get_read" /\ read_pc' = "done" /\ read_response'.status = 200)
       => /\ StoredValue(cache_key) # NoValue
          /\ StoredValue(cache_key) \in
                 {Result(request_kind, v, "ok") : v \in 0..warehouse}
          /\ read_response'.body = [StoredValue(cache_key) EXCEPT !.cached = TRUE]
          /\ redis_store' = redis_store
          /\ source_outcome = "none"
          /\ source_outcome' = "none"]_vars

C21_Witness ==
    /\ ReadDone
    /\ read_response.status = 200
    /\ read_response.body.cached
    /\ source_outcome = "none"

\* C22: every entry in the cache was written with the TTL of its data kind:
\* 43200 s for the schema listing, 21600 s for the asset inventory and table
\* metadata, 3600 s for lineage, previews and edge queries, 300 s for query
\* results and cell results
C22_TtlPerKind ==
    \A e \in redis_store :
        e.ttl = CASE e.value.endpoint = "schema" -> 43200
                  [] e.value.endpoint \in {"assets", "metadata"} -> 21600
                  [] e.value.endpoint \in {"lineage", "preview", "edge-query"} -> 3600
                  [] e.value.endpoint \in {"execute", "cell"} -> 300

C22_Witness == \E e \in redis_store : e.value.endpoint = "schema" /\ e.ttl = 43200

\* C24: an edge-query request whose source or target is not of three
\* dot-separated parts is answered with a 4xx status
C24_MalformedIdentityClientError ==
    (ReadDone /\ InvalidTableFormat(request_kind) /\ source_outcome = "invalid")
    => read_response.status \in 400..499

\* C30: a request that read the source before a clear completed does not
\* store its result after that clear
C30_NoStoreAfterClear ==
    [][(read_pc = "set_write" /\ read_pc' = "done" /\ overtaken)
       => redis_store' = redis_store]_vars

\* C29: every ancestor whose metadata was fetched is reported with at least
\* one issue and severity warning or critical, and the "no obvious upstream
\* issues" recommendation is given only when no ancestor was evaluated
C29_EveryEvaluatedAncestorFlagged ==
    WalkDone =>
        /\ \A i \in 1..Len(walk_log) :
               walk_log[i].step = "evaluated" =>
                   \E j \in 1..Len(rc_result.suspiciousNodes) :
                       /\ rc_result.suspiciousNodes[j].node.id = walk_log[i].id
                       /\ Len(rc_result.suspiciousNodes[j].issues) > 0
                       /\ rc_result.suspiciousNodes[j].severity \in {"warning", "critical"}
        /\ rc_result.recommendation.kind = "no_obvious_issues" =>
               \A i \in 1..Len(walk_log) : walk_log[i].step # "evaluated"

\* ---------------------------------------------------------------------------
\* Properties of the key derivation (checked under SpecKey)
\* ---------------------------------------------------------------------------

\* prefix, ":" and 16 hexadecimal digits
HashedForm(key, prefix) ==
    /\ Len(key) = Len(prefix) + 17
    /\ startswith(key, prefix \o <<":">>)
    /\ \A i \in (Len(prefix) + 2)..Len(key) : key[i] \in SeqToSet(HexDigits)

\* C23: the key is the prefix, ":" and the arguments joined with ":" when
\* that text is at most 100 characters and the hashed form otherwise, no key
\* longer than 100 characters is in another form than the hashed one, and
\* the same prefix and arguments give the same key
C23_KeyDerivation ==
    LET joined == Join(key_args, <<":">>)
    IN  key_args # << >> =>
            /\ Len(joined) <= 100 => derived_key = key_prefix \o <<":">> \o joined
            /\ Len(joined) > 100 => HashedForm(derived_key, key_prefix)
            /\ Len(derived_key) > 100 => HashedForm(derived_key, key_prefix)
            /\ derived_key = generate_cache_key(key_args, key_prefix)

\* ---------------------------------------------------------------------------
\* Properties of the cells of an exploration (checked under SpecExploration)
\* ---------------------------------------------------------------------------

\* C25: after any sequence of create_cell (appended, or inserted at an index
\* from 0 to the number of cells) and delete_cell on an initially empty
\* exploration, no two cells share an order_index and the indices are exactly
\* 0..n-1.
C25_OrderIndexDense ==
    /\ \A c, d \in cells : c.order_index = d.order_index => c = d
    /\ {c.order_index : c \in cells} = 0..(Cardinality(cells) - 1)

\* C28: when the execution of a SQL cell failed in the warehouse and the
\* request was answered 400, the database holds the error record on the
\* cell, with executed_at the start time of the request.
C28_ErrorRecordPersists ==
    (exp_response.op = "execute" /\ exp_response.outcome = "error"
        /\ exp_response.status = 400)
    => \E c \in cells :
         /\ c.id = exp_response.cell_id
         /\ c.output = [kind |-> "error", executed_at |-> exp_response.start_time,
                        cached |-> FALSE]

\* ---------------------------------------------------------------------------
\* Properties of the access check (checked under SpecShares)
\* ---------------------------------------------------------------------------

\* C26: check_exploration_access with require_edit grants access if and only
\* if the user is the owner or holds at least one share with permission edit
\* or admin, whatever the other shares and the order they are loaded in.
C26_EditAccessIffOwnerOrEditShare ==
    (access_result.op = "check" /\ access_result.require_edit
        /\ access_result.status \in {200, 403})
    => (access_result.status = 200
        <=> \/ access_result.user_id = exploration.user_id
            \/ \E s \in shares :
                 /\ s.shared_with_user_id = access_result.user_id
                 /\ s.permission_level \in {"edit", "admin"})

\* C27: a share whose expires_at lies in the past never grants access, used
\* through its token or through the shared_with_user_id of the requester:
\* access granted through shares comes with a share that has not expired.
C27_ExpiredShareNeverGrants ==
    /\ (access_result.op = "token" /\ access_result.status = 200)
       => \E s \in shares :
            /\ s.share_token = access_result.token
            /\ ~Expired(s, access_result.at)
    /\ (access_result.op = "check" /\ access_result.status = 200
           /\ access_result.user_id # exploration.user_id
           /\ ~(exploration.is_public /\ ~access_result.require_edit))
       => \E s \in shares :
            /\ s.shared_with_user_id = access_result.user_id
            /\ ~Expired(s, access_result.at)

====
